---- MODULE Spec2Model ----
(***************************************************************************)
(* Locale-aware route resolution of LuwioRouter (src/src/domain/index.tsx). *)
(*                                                                         *)
(* Strings are sequences of one-character strings, so that concatenation,  *)
(* startsWith, endsWith and slice are computed as the code computes them.  *)
(* A value of type `Route | null` is a set holding at most one route: {}   *)
(* is null.  An optional argument (`from`) is a set of at most one value.  *)
(***************************************************************************)
EXTENDS Integers, Sequences, FiniteSets

VARIABLES
    config,       \* this._config: definitions, routes, defaultLanguage, supportedLanguages
    phase,        \* "new" before the constructor ran, "ready" after it, "failed" if it threw
    registered,   \* the routes handed to root.addChildren, in order
    routesByPath, \* this._router.routesByPath: concrete path -> registered route
    location,     \* this._router.__store.state.location.pathname
    pending,      \* the navigation the engine was last asked for and has not committed
    last          \* the most recent facade call and what it returned

vars == <<config, phase, registered, routesByPath, location, pending, last>>

----------------------------------------------------------------------------
(* Bounds of the model. *)

MaxRoutes == 2
MaxNavRoutes == 1

EN == <<"e", "n">>
FR == <<"f", "r">>
SLASH == <<"/">>

Keys == {"home", "about"}
Langs == {EN, FR}
RawPaths == {SLASH, SLASH \o FR}
DefinitionSets == {{"home", "about"}, {"home"}}
SupportedSets == {{EN, FR}, {EN}}
BaseUrls == {<<>>, <<"x">>, <<"x", "/">>, <<"x", "/", "/">>}

Entries == [definition : Keys, language : Langs, path : RawPaths]

SeqsUpTo(S, n) == UNION {[1..m -> S] : m \in 0..n}

Configs(n) ==
    [definitions : DefinitionSets,
     routes : SeqsUpTo(Entries, n),
     defaultLanguage : Langs,
     supportedLanguages : SupportedSets]

----------------------------------------------------------------------------
(* String primitives of the language runtime. *)

startsWith(s, c) == Len(s) > 0 /\ s[1] = c
endsWith(s, c) == Len(s) > 0 /\ s[Len(s)] = c
sliceFrom1(s) == SubSeq(s, 2, Len(s))
sliceDropLast(s) == SubSeq(s, 1, Len(s) - 1)

----------------------------------------------------------------------------
(* _buildPath: the path builder. *)

\* Mutant: the root path is not collapsed under a language prefix.
_buildPathKeepRoot(cfg, language, rawPath) ==
    IF language # cfg.defaultLanguage
      THEN SLASH \o language \o rawPath
      ELSE rawPath

_buildPath(cfg, language, rawPath) ==
    LET defaultLng == cfg.defaultLanguage
        languageSafePath == IF rawPath = SLASH THEN <<>> ELSE rawPath
    IN  IF language # defaultLng
          THEN SLASH \o language \o languageSafePath
          ELSE rawPath

----------------------------------------------------------------------------
(* The constructor: compile the locale entries into concrete routes. *)

\* createRoute({path, component}): the engine's route object.
createRoute(concretePath, component) ==
    [fullPath |-> concretePath, component |-> component]

\* Mutant: the supported-language test is missing.
mapRouteAnyLanguage(cfg, entry) ==
    IF entry.definition \notin cfg.definitions
      THEN [kind |-> "null", route |-> {}]
      ELSE [kind |-> "route",
            route |-> {createRoute(_buildPath(cfg, entry.language, entry.path),
                                   entry.definition)}]

\* The callback of routes.map: a route, null, or an exception.
mapRoute(cfg, entry) ==
    IF entry.definition \notin cfg.definitions
      THEN [kind |-> "null", route |-> {}]
      ELSE IF entry.language \notin cfg.supportedLanguages
        THEN [kind |-> "null", route |-> {}]
        ELSE [kind |-> "route",
              route |-> {createRoute(_buildPath(cfg, entry.language, entry.path),
                                     entry.definition)}]

RECURSIVE filterNotNull(_)
filterNotNull(mapped) ==
    IF mapped = <<>> THEN <<>>
    ELSE LET rest == filterNotNull(Tail(mapped))
         IN  IF Head(mapped).kind = "route"
               THEN <<CHOOSE r \in Head(mapped).route : TRUE>> \o rest
               ELSE rest

compileRoutes(cfg) ==
    filterNotNull([i \in 1..Len(cfg.routes) |-> mapRoute(cfg, cfg.routes[i])])

constructorThrows(cfg) ==
    \E i \in 1..Len(cfg.routes) : mapRoute(cfg, cfg.routes[i]).kind = "throw"

\* createRouter({routeTree}): the engine indexes the registered routes by path.
\* Which of several routes registered under one path the index keeps is the
\* engine's choice; every choice is allowed.
routeIndexes(routes) ==
    LET paths == {routes[i].fullPath : i \in 1..Len(routes)}
    IN  {idx \in [paths -> {routes[i] : i \in 1..Len(routes)}] :
            \A p \in paths : idx[p].fullPath = p}

NoCall ==
    [op |-> "none", key |-> "", language |-> <<>>, from |-> {}, baseUrl |-> <<>>,
     pathname |-> <<>>, str |-> <<>>, flag |-> FALSE, error |-> {}]

\* The page may have been loaded at any pathname.
InitialPathnames == {SLASH, SLASH \o FR}

InitWith(n, pathnames) ==
    /\ config \in Configs(n)
    /\ phase = "new"
    /\ registered = <<>>
    /\ routesByPath = <<>>
    /\ location \in pathnames
    /\ pending = {}
    /\ last = NoCall

Init == InitWith(MaxRoutes, {SLASH})

Construct ==
    /\ phase = "new"
    /\ IF constructorThrows(config)
         THEN /\ phase' = "failed"
              /\ UNCHANGED <<registered, routesByPath>>
         ELSE /\ phase' = "ready"
              /\ registered' = compileRoutes(config)
              /\ routesByPath' \in routeIndexes(compileRoutes(config))
    /\ UNCHANGED <<config, location, pending, last>>

----------------------------------------------------------------------------
(* The resolver. *)

Selectors == [key : Keys, language : Langs]
OptionalSelectors == {{}} \cup {{sel} : sel \in Selectors}

\* Mutant: the last matching entry instead of the first.
findLastRoute(cfg, key, language) ==
    LET hits == {i \in 1..Len(cfg.routes) :
                    /\ cfg.routes[i].language = language
                    /\ cfg.routes[i].definition = key}
    IN  IF hits = {} THEN {}
        ELSE {cfg.routes[CHOOSE i \in hits : \A j \in hits : i >= j]}

\* routes.find(...): the first entry with this language and key, or nothing.
findRoute(cfg, key, language) ==
    LET hits == {i \in 1..Len(cfg.routes) :
                    /\ cfg.routes[i].language = language
                    /\ cfg.routes[i].definition = key}
    IN  IF hits = {} THEN {}
        ELSE {cfg.routes[CHOOSE i \in hits : \A j \in hits : i <= j]}

\* Mutant: the index is asked for the entry's raw path, not the rebuilt one.
_routeByRawPath(key, language) ==
    IF key \notin config.definitions THEN {}
    ELSE LET found == findRoute(config, key, language)
         IN  IF found = {} THEN {}
             ELSE LET entry == CHOOSE e \in found : TRUE
                  IN  IF entry.path \in DOMAIN routesByPath
                        THEN {routesByPath[entry.path]}
                        ELSE {}

_route(key, language) ==
    IF key \notin config.definitions THEN {}
    ELSE LET found == findRoute(config, key, language)
         IN  IF found = {} THEN {}
             ELSE LET entry == CHOOSE e \in found : TRUE
                      concretePath == _buildPath(config, language, entry.path)
                  IN  IF concretePath \in DOMAIN routesByPath
                        THEN {routesByPath[concretePath]}
                        ELSE {}

fullPathOf(route) == (CHOOSE r \in route : TRUE).fullPath

----------------------------------------------------------------------------
(* The facade's synchronous queries. *)

\* this._router.buildLocation({to}).href with no query, params or hash.
buildLocationHref(to) == to

href(key, language) ==
    LET route == _route(key, language)
    IN  IF route = {} THEN <<>> ELSE buildLocationHref(fullPathOf(route))

relative(key, language) == href(key, language)

\* Mutant: the leading slash of href is kept.
absoluteKeepHrefSlash(baseUrl, key, language) ==
    LET h == href(key, language)
        strippedBaseUrl == IF endsWith(baseUrl, "/") THEN sliceDropLast(baseUrl)
                           ELSE baseUrl
    IN  strippedBaseUrl \o SLASH \o h

\* Mutant: the trailing slash of baseUrl is kept.
absoluteKeepBaseSlash(baseUrl, key, language) ==
    LET h == href(key, language)
        strippedHref == IF startsWith(h, "/") THEN sliceFrom1(h) ELSE h
    IN  baseUrl \o SLASH \o strippedHref

absolute(baseUrl, key, language) ==
    LET h == href(key, language)
        strippedHref == IF startsWith(h, "/") THEN sliceFrom1(h) ELSE h
        strippedBaseUrl == IF endsWith(baseUrl, "/") THEN sliceDropLast(baseUrl)
                           ELSE baseUrl
    IN  strippedBaseUrl \o SLASH \o strippedHref

path(key, language) ==
    LET route == _route(key, language)
    IN  IF route = {} THEN <<>> ELSE fullPathOf(route)

\* Mutant: a prefix match instead of equality.
isActivePrefix(key, language) ==
    LET route == _route(key, language)
    IN  IF route # {}
          THEN /\ Len(fullPathOf(route)) <= Len(location)
               /\ SubSeq(location, 1, Len(fullPathOf(route))) = fullPathOf(route)
          ELSE FALSE

isActive(key, language) ==
    LET currentLocation == location
        route == _route(key, language)
    IN  IF route # {} THEN currentLocation = fullPathOf(route) ELSE FALSE

hasRoute(key, language) == _route(key, language) # {}

Called(op, key, language) ==
    [NoCall EXCEPT !.op = op, !.key = key, !.language = language]

\* Mutant: path drives the engine to the route instead of building a location.
PathMovesLocation(key, language) ==
    /\ phase = "ready"
    /\ last' = [Called("path", key, language) EXCEPT !.str = path(key, language)]
    /\ location' = IF _route(key, language) = {} THEN location
                   ELSE path(key, language)
    /\ UNCHANGED <<config, phase, registered, routesByPath, pending>>

Path(key, language) ==
    /\ phase = "ready"
    /\ last' = [Called("path", key, language) EXCEPT !.str = path(key, language)]
    /\ UNCHANGED <<config, phase, registered, routesByPath, location, pending>>

HasRoute(key, language) ==
    /\ phase = "ready"
    /\ last' = [Called("hasRoute", key, language) EXCEPT
                  !.flag = hasRoute(key, language)]
    /\ UNCHANGED <<config, phase, registered, routesByPath, location, pending>>

IsActive(key, language) ==
    /\ phase = "ready"
    /\ last' = [Called("isActive", key, language) EXCEPT
                  !.pathname = location,
                  !.flag = isActive(key, language)]
    /\ UNCHANGED <<config, phase, registered, routesByPath, location, pending>>

Href(key, language) ==
    /\ phase = "ready"
    /\ last' = [Called("href", key, language) EXCEPT !.str = href(key, language)]
    /\ UNCHANGED <<config, phase, registered, routesByPath, location, pending>>

Relative(key, language) ==
    /\ phase = "ready"
    /\ last' = [Called("relative", key, language) EXCEPT
                  !.str = relative(key, language)]
    /\ UNCHANGED <<config, phase, registered, routesByPath, location, pending>>

Absolute(baseUrl, key, language) ==
    /\ phase = "ready"
    /\ last' = [Called("absolute", key, language) EXCEPT
                  !.baseUrl = baseUrl,
                  !.str = absolute(baseUrl, key, language)]
    /\ UNCHANGED <<config, phase, registered, routesByPath, location, pending>>

----------------------------------------------------------------------------
(* navigate: resolve `to` and `from`, then delegate to the engine. *)

NavigationError(side, sel) ==
    [side |-> side, key |-> sel.key, language |-> sel.language]

\* Mutant: `from` is resolved, and reported, before `to`.
navigateFromFirst(to, from) ==
    LET toRoute == _route(to.key, to.language)
        fromSel == CHOOSE f \in from : TRUE
        fromRoute == IF from # {} THEN _route(fromSel.key, fromSel.language) ELSE {}
    IN  IF from # {} /\ fromRoute = {}
          THEN [error |-> {NavigationError("from", fromSel)}, delegated |-> {}]
          ELSE IF toRoute = {}
            THEN [error |-> {NavigationError("to", to)}, delegated |-> {}]
            ELSE [error |-> {},
                  delegated |->
                    {[to |-> fullPathOf(toRoute),
                      from |-> {r.fullPath : r \in fromRoute}]}]

\* Mutant: the engine is asked to navigate before `from` is resolved.
navigateBeforeFromCheck(to, from) ==
    LET toRoute == _route(to.key, to.language)
    IN  IF toRoute = {}
          THEN [error |-> {NavigationError("to", to)}, delegated |-> {}]
          ELSE LET fromSel == CHOOSE f \in from : TRUE
                   fromRoute == IF from # {}
                                  THEN _route(fromSel.key, fromSel.language)
                                  ELSE {}
               IN  [error |-> IF from # {} /\ fromRoute = {}
                                THEN {NavigationError("from", fromSel)}
                                ELSE {},
                    delegated |->
                      {[to |-> fullPathOf(toRoute),
                        from |-> {r.fullPath : r \in fromRoute}]}]

\* The synchronous part of navigate: the rejection, if any, and the options of
\* every call it makes to this._router.navigate.
navigate(to, from) ==
    LET toRoute == _route(to.key, to.language)
    IN  IF toRoute = {}
          THEN [error |-> {NavigationError("to", to)}, delegated |-> {}]
          ELSE LET fromSel == CHOOSE f \in from : TRUE
                   fromRoute == IF from # {}
                                  THEN _route(fromSel.key, fromSel.language)
                                  ELSE {}
               IN  IF from # {} /\ fromRoute = {}
                     THEN [error |-> {NavigationError("from", fromSel)},
                           delegated |-> {}]
                     ELSE [error |-> {},
                           delegated |->
                             {[to |-> fullPathOf(toRoute),
                               from |-> {r.fullPath : r \in fromRoute}]}]

Navigate(to, from) ==
    /\ phase = "ready"
    /\ LET outcome == navigate(to, from)
       IN  /\ last' = [Called("navigate", to.key, to.language) EXCEPT
                         !.from = from,
                         !.error = outcome.error]
           /\ pending' = IF outcome.delegated # {} THEN outcome.delegated
                         ELSE pending
    /\ UNCHANGED <<config, phase, registered, routesByPath, location>>

\* The engine completes the navigation it was asked for: the location moves.
EngineCommit ==
    /\ pending # {}
    /\ location' = (CHOOSE o \in pending : TRUE).to
    /\ pending' = {}
    /\ UNCHANGED <<config, phase, registered, routesByPath, last>>

Queries ==
    \E sel \in Selectors :
        \/ Path(sel.key, sel.language)
        \/ HasRoute(sel.key, sel.language)
        \/ Href(sel.key, sel.language)
        \/ Relative(sel.key, sel.language)
        \/ \E baseUrl \in BaseUrls : Absolute(baseUrl, sel.key, sel.language)

Navigation ==
    \/ \E sel \in Selectors : IsActive(sel.key, sel.language)
    \/ \E to \in Selectors, from \in OptionalSelectors : Navigate(to, from)
    \/ EngineCommit

Next == Construct \/ Queries

Spec == Init /\ [][Next]_vars

InitNav == InitWith(MaxNavRoutes, InitialPathnames)

NextNav == Construct \/ Navigation

SpecNav == InitNav /\ [][NextNav]_vars

NextAll == Construct \/ Queries \/ Navigation

SpecAll == InitNav /\ [][NextAll]_vars

\* The configurations of SpecFacade give locale entries to one key only; the
\* other key is asked for and never found.
FacadeEntries == {e \in Entries : e.definition = "home"}

InitFacade ==
    /\ config \in [definitions : DefinitionSets,
                   routes : SeqsUpTo(FacadeEntries, MaxNavRoutes),
                   defaultLanguage : Langs,
                   supportedLanguages : SupportedSets]
    /\ phase = "new"
    /\ registered = <<>>
    /\ routesByPath = <<>>
    /\ location = SLASH
    /\ pending = {}
    /\ last = NoCall

\* Every facade operation; absolute is given one baseUrl, which it only reads.
FacadeBaseUrls == {<<"x", "/">>}

FacadeQueries ==
    \E sel \in Selectors :
        \/ Path(sel.key, sel.language)
        \/ HasRoute(sel.key, sel.language)
        \/ Href(sel.key, sel.language)
        \/ Relative(sel.key, sel.language)
        \/ \E baseUrl \in FacadeBaseUrls : Absolute(baseUrl, sel.key, sel.language)

NextFacade == Construct \/ FacadeQueries \/ Navigation

SpecFacade == InitFacade /\ [][NextFacade]_vars
----------------------------------------------------------------------------
(* What the claims speak of. *)

Defined(key) == key \in config.definitions
Supported(language) == language \in config.supportedLanguages

\* The positions of the locale entries for (key, language), in list order.
EntriesFor(key, language) ==
    {i \in 1..Len(config.routes) :
        /\ config.routes[i].definition = key
        /\ config.routes[i].language = language}

FirstEntryFor(key, language) ==
    config.routes[CHOOSE i \in EntriesFor(key, language) :
                     \A j \in EntriesFor(key, language) : i <= j]

\* The path builder as the design states it.
PathBuilder(language, defaultLanguage, rawPath) ==
    IF language = defaultLanguage THEN rawPath
    ELSE IF rawPath = SLASH THEN SLASH \o language
    ELSE SLASH \o language \o rawPath

BuiltPath(entry) == PathBuilder(entry.language, config.defaultLanguage, entry.path)

LastIs(op) == phase = "ready" /\ last.op = op

----------------------------------------------------------------------------
(* C1, as stated: for EVERY locale entry whose key is defined and whose     *)
(* language is supported, hasRoute is true and path is that entry's built   *)
(* path.                                                                   *)
C1_EveryEntry ==
    \A i \in 1..Len(config.routes) :
        LET e == config.routes[i]
        IN  (Defined(e.definition) /\ Supported(e.language)
             /\ last.key = e.definition /\ last.language = e.language)
            => /\ LastIs("hasRoute") => last.flag
               /\ LastIs("path") => last.str = BuiltPath(e)

(* C1, amended: for every (key, language) that has a locale entry, a       *)
(* definition and a supported language, hasRoute is true and path is the   *)
(* built path of the FIRST entry for (key, language).                      *)
C1_FirstEntry ==
    (/\ EntriesFor(last.key, last.language) # {}
     /\ Defined(last.key) /\ Supported(last.language))
    => /\ LastIs("hasRoute") => last.flag
       /\ LastIs("path") => last.str = BuiltPath(FirstEntryFor(last.key, last.language))

C1_Witness ==
    /\ LastIs("path")
    /\ Cardinality(EntriesFor(last.key, last.language)) = 2
    /\ Defined(last.key) /\ Supported(last.language)
    /\ last.language # config.defaultLanguage
    /\ last.str = BuiltPath(config.routes[1])
    /\ last.str # BuiltPath(config.routes[2])

(* C2, as stated: a (key, language) with no locale entry, an unsupported   *)
(* language or an undefined key has hasRoute false and path "".            *)
C2_Unregistered ==
    (\/ EntriesFor(last.key, last.language) = {}
     \/ ~Supported(last.language)
     \/ ~Defined(last.key))
    => /\ LastIs("hasRoute") => ~last.flag
       /\ LastIs("path") => last.str = <<>>

(* C3: _buildPath returns rawPath for the default language and otherwise   *)
(* "/" + language + rawPath with rawPath "/" contributing nothing,         *)
(* whatever the supported languages are.                                   *)
C3_BuildPath ==
    \A language \in Langs, rawPath \in RawPaths, supported \in SUBSET Langs :
        _buildPath([config EXCEPT !.supportedLanguages = supported], language, rawPath)
            = PathBuilder(language, config.defaultLanguage, rawPath)

C3_Witness ==
    /\ phase = "ready"
    /\ \E i \in 1..Len(config.routes) :
          LET e == config.routes[i]
          IN  /\ Defined(e.definition) /\ Supported(e.language)
              /\ e.language # config.defaultLanguage
              /\ e.path = SLASH
              /\ \E j \in 1..Len(registered) :
                    registered[j].fullPath = SLASH \o e.language

(* C8: the constructor never throws, and it registers, in the order of     *)
(* routes, one route with the built path for each entry whose key is       *)
(* defined and whose language is supported, and nothing else.              *)
Kept(entry) == Defined(entry.definition) /\ Supported(entry.language)

DirectIndex(key, language) ==
    IF EntriesFor(key, language) # {} /\ Defined(key) /\ Supported(language)
      THEN {createRoute(BuiltPath(FirstEntryFor(key, language)), key)}
      ELSE {}

C9_DirectIndex ==
    phase = "ready" =>
        \A sel \in Selectors :
            _route(sel.key, sel.language) = DirectIndex(sel.key, sel.language)

----------------------------------------------------------------------------
(* absolute: the join of baseUrl and href. *)

NotFound(key, language) == _route(key, language) = {}

\* baseUrl without its trailing slash, if it has one.
Stem(baseUrl) ==
    IF Len(baseUrl) > 0 /\ baseUrl[Len(baseUrl)] = "/"
      THEN SubSeq(baseUrl, 1, Len(baseUrl) - 1)
      ELSE baseUrl

DoubleSlashAt(s, i) == i >= 1 /\ i + 1 <= Len(s) /\ s[i] = "/" /\ s[i + 1] = "/"

\* In the result, the separating slash stands right after the stem of baseUrl:
\* a double slash at the join is one that includes the separator.
DoubleSlashAtJoin(baseUrl, result) ==
    LET sep == Len(Stem(baseUrl)) + 1
    IN  DoubleSlashAt(result, sep - 1) \/ DoubleSlashAt(result, sep)

EndsWithDoubleSlash(s) == Len(s) >= 2 /\ s[Len(s)] = "/" /\ s[Len(s) - 1] = "/"
StartsWithDoubleSlash(s) == Len(s) >= 2 /\ s[1] = "/" /\ s[2] = "/"

(* C6, as stated: for every baseUrl and every resolved href, the result of *)
(* absolute has no double slash where baseUrl and href meet.               *)
C6_NoDoubleSlash ==
    (LastIs("absolute") /\ ~NotFound(last.key, last.language))
    => ~DoubleSlashAtJoin(last.baseUrl, last.str)

(* C6, amended: for every baseUrl that does not end in "//" and every      *)
(* resolved href that does not begin with "//", the result of absolute has *)
(* no double slash where baseUrl and href meet.                            *)
C6_SingleSlashes ==
    (/\ LastIs("absolute") /\ ~NotFound(last.key, last.language)
     /\ ~EndsWithDoubleSlash(last.baseUrl)
     /\ ~StartsWithDoubleSlash(href(last.key, last.language)))
    => ~DoubleSlashAtJoin(last.baseUrl, last.str)

C6_Witness ==
    /\ LastIs("absolute") /\ ~NotFound(last.key, last.language)
    /\ endsWith(last.baseUrl, "/") /\ ~EndsWithDoubleSlash(last.baseUrl)
    /\ startsWith(href(last.key, last.language), "/")
    /\ Len(href(last.key, last.language)) > 1
    /\ last.str = Stem(last.baseUrl) \o href(last.key, last.language)

(* C7, as stated: for a NotFound (key, language), href and relative return *)
(* "" and absolute returns baseUrl + "/" for every baseUrl.                *)
C7_BaseUrlPlusSlash ==
    NotFound(last.key, last.language)
    => /\ (LastIs("href") \/ LastIs("relative")) => last.str = <<>>
       /\ LastIs("absolute") => last.str = last.baseUrl \o SLASH

(* C7, amended: for a NotFound (key, language), href and relative return   *)
(* "" and absolute returns baseUrl + "/" when baseUrl does not end with    *)
(* "/", and baseUrl itself when it does.                                   *)
C7_NotFoundStrings ==
    NotFound(last.key, last.language)
    => /\ (LastIs("href") \/ LastIs("relative")) => last.str = <<>>
       /\ LastIs("absolute") =>
             last.str = IF endsWith(last.baseUrl, "/") THEN last.baseUrl
                        ELSE last.baseUrl \o SLASH

C7_Witness ==
    /\ LastIs("absolute") /\ NotFound(last.key, last.language)
    /\ endsWith(last.baseUrl, "/")
    /\ last.str = last.baseUrl

----------------------------------------------------------------------------
(* navigate and isActive, under SpecNav. *)

Resolves(sel) == _route(sel.key, sel.language) # {}

LastTo == [key |-> last.key, language |-> last.language]

(* C4: the engine is asked to navigate only by a navigate call whose `to`  *)
(* resolves and whose `from` is absent or resolves; a step that leaves a   *)
(* rejected navigate call behind has asked the engine for nothing, whatever *)
(* navigation is in flight.                                                *)
C4_RejectedNeverDelegates ==
    [][ /\ (pending' # pending /\ pending' # {}) =>
              /\ last'.op = "navigate" /\ last'.error = {}
              /\ Resolves([key |-> last'.key, language |-> last'.language])
              /\ \A f \in last'.from : Resolves(f)
        /\ (last'.op = "navigate" /\ last'.error # {}) =>
              (pending' = pending \/ pending' = {})
      ]_vars

C4_Witness ==
    /\ LastIs("navigate") /\ last.error # {}
    /\ Resolves(LastTo) /\ \E f \in last.from : ~Resolves(f)
    /\ pending # {}
    /\ location # SLASH

(* C5: isActive is true exactly when the pathname of the current location  *)
(* equals path(key, language).                                             *)
C5_ActiveIffPath ==
    LastIs("isActive") => (last.flag <=> last.pathname = path(last.key, last.language))

C5_Witness ==
    /\ LastIs("isActive") /\ last.flag
    /\ last.pathname # SLASH
    /\ last.pathname = path(last.key, last.language)

(* C11: a rejected navigate carries an error naming the failing side and   *)
(* its (key, language): side `to` with to.key and to.language whenever     *)
(* `to` is NotFound, even if `from` is NotFound too; side `from` with      *)
(* from.key and from.language only when `to` resolves and the supplied     *)
(* `from` does not.                                                        *)
C11_ErrorNamesSide ==
    LastIs("navigate") =>
        /\ ~Resolves(LastTo) =>
              last.error = {[side |-> "to", key |-> last.key,
                             language |-> last.language]}
        /\ (Resolves(LastTo) /\ \E f \in last.from : ~Resolves(f)) =>
              last.error = {[side |-> "from", key |-> f.key,
                             language |-> f.language] : f \in last.from}
        /\ (\E e \in last.error : e.side = "from") =>
              (Resolves(LastTo) /\ \E f \in last.from : ~Resolves(f))
        /\ (Resolves(LastTo) /\ \A f \in last.from : Resolves(f)) =>
              last.error = {}

C11_Witness ==
    /\ LastIs("navigate")
    /\ ~Resolves(LastTo)
    /\ \E f \in last.from : ~Resolves(f) /\ f # LastTo
    /\ \E e \in last.error :
          e.side = "to" /\ e.key = last.key /\ e.language = last.language

----------------------------------------------------------------------------
(* The frame of the facade, under SpecFacade. *)

QueryOps == {"path", "hasRoute", "isActive", "href", "relative", "absolute"}

(* C12: once the router is constructed, no facade operation changes the    *)
(* definitions, routes and language config, the registered routes or the   *)
(* path-to-route index; a query (path, hasRoute, isActive, href, relative, *)
(* absolute) leaves the current location unchanged, which only the         *)
(* engine's completion of a navigation moves; so resolve(key, language)    *)
(* gives after every step what it gave right after construction.           *)
C12_QueriesFrame ==
    [][ phase = "ready" =>
          /\ config' = config
          /\ registered' = registered
          /\ routesByPath' = routesByPath
          /\ (last' # last /\ last'.op \in QueryOps) => location' = location
          /\ location' # location => (pending # {} /\ pending' = {} /\ last' = last)
          /\ \A sel \in Selectors :
                _route(sel.key, sel.language)' = _route(sel.key, sel.language)
      ]_vars

C12_Witness ==
    /\ LastIs("path") /\ last.str # <<>>
    /\ location # SLASH
    /\ pending # {}
====
